---- MODULE Spec2Model ----
(***************************************************************************)
(* Model of the education indicators dashboard (src/app.py): the loader    *)
(* load_edstats (wide -> long reshape, year-column detection, numeric      *)
(* coercion, missing flag), its st.cache_data memo, and one script run     *)
(* (load guard, sidebar selection, filtered view, KPI numbers, chart       *)
(* composition, layout), re-executed on every user interaction.            *)
(*                                                                         *)
(* Text is modelled as follows.  Column headers and cell contents are      *)
(* sequences of one-character strings, so that the regular expression,     *)
(* int() and pd.to_numeric are computed character by character.  Country   *)
(* and indicator names are strings, compared by their position in          *)
(* NameOrder, which lists the names in Python's (code point) string order. *)
(* A pandas missing value is the empty sequence NaN for numbers and the    *)
(* string NaNName for names; a present number n is <<n>>.                  *)
(***************************************************************************)
EXTENDS Integers, Sequences, FiniteSets, TLC

\* ------------------------------------------------------------ bounds
\* Largest number of data rows of an enumerated source table.
MaxRows == 2
\* Largest number of year-like columns of a source table of the column family.
MaxCols == 1

\* ------------------------------------------------------- program constants
YearLo == 1970
YearHi == 2015

RequiredCols == <<"Country Name", "Country Code", "Indicator Name", "Indicator Code">>

PreferredIndicators ==
  << "School enrollment, primary, female (% gross)",
     "School enrollment, primary, female (% net)",
     "Adjusted net enrolment rate, primary, female (%)" >>

PreferredCountry == "Arab World"

\* ------------------------------------------------------------ text
Digits == {"0", "1", "2", "3", "4", "5", "6", "7", "8", "9"}
DigitChars == <<"0", "1", "2", "3", "4", "5", "6", "7", "8", "9">>
DigitVal(ch) == (CHOOSE i \in 1..10 : DigitChars[i] = ch) - 1

NaN == <<>>
NaNName == "nan"
None == "None"

\* Python's order on the names used (code point order of the strings).
NameOrder ==
  << "Adjusted net enrolment rate, primary, female (%)",
     "Adult literacy rate, population 15+ years, female (%)",
     "Albania",
     "Arab World",
     "Aruba",
     "School enrollment, primary, female (% gross)",
     "School enrollment, primary, female (% net)",
     "Youth literacy rate, population 15-24 years, female (%)" >>
Rank(s) == CHOOSE i \in 1..Len(NameOrder) : NameOrder[i] = s

SeqToSet(q) == {q[i] : i \in 1..Len(q)}
Contains(q, x) == \E i \in 1..Len(q) : q[i] = x
\* list.index(x): 0-based position of the first occurrence
IndexOf(q, x) == (CHOOSE i \in 1..Len(q) : q[i] = x /\ \A j \in 1..(i-1) : q[j] # x) - 1

\* sorted(list of names)
RECURSIVE SortedNames(_)
SortedNames(S) ==
  IF S = {} THEN <<>>
  ELSE LET m == CHOOSE x \in S : \A y \in S : Rank(x) <= Rank(y)
       IN <<m>> \o SortedNames(S \ {m})

\* re.fullmatch(r"\d{4}", str(c))
FullMatch4Digits(c) == Len(c) = 4 /\ \A i \in 1..Len(c) : c[i] \in Digits

\* int(c) of a digit string
RECURSIVE IntOf(_)
IntOf(c) ==
  IF Len(c) = 0 THEN 0
  ELSE 10 * IntOf(SubSeq(c, 1, Len(c) - 1)) + DigitVal(c[Len(c)])

\* pd.to_numeric(token, errors="coerce"): an optionally signed digit string is
\* its number, every other token (empty, "..", words) is NaN.
ToNumeric(t) ==
  IF t = <<>> THEN NaN
  ELSE IF \A i \in 1..Len(t) : t[i] \in Digits THEN <<IntOf(t)>>
  ELSE IF Len(t) >= 2 /\ t[1] = "-" /\ \A i \in 2..Len(t) : t[i] \in Digits
       THEN <<0 - IntOf(Tail(t))>>
  ELSE NaN

\* Series.isna()
IsNa(v) == v = NaN

\* ------------------------------------------------------------ loader
\* year_cols = [c for c in df.columns if re.fullmatch(r"\d{4}", str(c))]
DetectYearCols(cols) == {c \in cols : FullMatch4Digits(c)}
\* year_cols = [c for c in year_cols if 1970 <= int(c) <= 2015]
InBoundLowerOnly(c) == YearLo <= IntOf(c)
InBound(c) == YearLo <= IntOf(c) /\ IntOf(c) <= YearHi
\* year_cols = sorted(year_cols, key=lambda x: int(x))
RECURSIVE SortByInt(_)
SortByInt(S) ==
  IF S = {} THEN <<>>
  ELSE LET m == CHOOSE x \in S : \A y \in S : IntOf(x) <= IntOf(y)
       IN <<m>> \o SortByInt(S \ {m})
YearCols(cols) == SortByInt({c \in DetectYearCols(cols) : InBound(c)})

\* missing_required = [c for c in required_cols if c not in df.columns]
MissingRequired(idcols) ==
  SelectSeq(RequiredCols, LAMBDA c : c \notin idcols)

\* df[required_cols + year_cols].melt(...): one record per (year column, row),
\* column by column
Melt(rows, ycols) ==
  LET n == Len(rows)
  IN [k \in 1..(n * Len(ycols)) |->
        LET j == ((k - 1) \div n) + 1
            i == ((k - 1) % n) + 1
        IN [CountryName |-> rows[i].CountryName,
            CountryCode |-> rows[i].CountryCode,
            IndicatorName |-> rows[i].IndicatorName,
            IndicatorCode |-> rows[i].IndicatorCode,
            Year |-> ycols[j],
            Value |-> rows[i].cells[ycols[j]]]]

\* long_df["Missing"] = long_df["Value"].isna(), taken after the coercion of
\* line 41 (raw is the cell as read, coerced the cell after pd.to_numeric)
FlagMissingBeforeCoercion(raw, coerced) == raw = <<>>
FlagMissing(raw, coerced) == IsNa(coerced)

\* lines 38-43: coerce Year and Value, flag Missing
Coerce(long) ==
  [k \in 1..Len(long) |->
     LET v == ToNumeric(long[k].Value)
     IN [long[k] EXCEPT !.Year = ToNumeric(long[k].Year), !.Value = v]
        @@ [Missing |-> FlagMissing(long[k].Value, v)]]

\* lines 46-47: dropna(subset=["Year"]) and astype(int)
DropNaYear(long) ==
  LET kept == SelectSeq(long, LAMBDA r : ~IsNa(r.Year))
  IN [k \in 1..Len(kept) |-> [kept[k] EXCEPT !.Year = kept[k].Year[1]]]

EmptyTable == <<>>
NoExc == [type |-> "none", missing |-> <<>>]

\* load_edstats(path): what the body returns or raises on the source found at
\* the path
load_edstats(src) ==
  IF ~src.ok
    THEN [raised |-> TRUE, exc |-> [type |-> "ReadError", missing |-> <<>>],
          table |-> EmptyTable]
  ELSE IF MissingRequired(src.idcols) # <<>>
    THEN [raised |-> TRUE,
          exc |-> [type |-> "ValueError", missing |-> MissingRequired(src.idcols)],
          table |-> EmptyTable]
  ELSE [raised |-> FALSE, exc |-> NoExc,
        table |-> DropNaYear(Coerce(Melt(src.rows, YearCols(src.ycols))))]

\* ------------------------------------------------------------ selection
\* sorted(series.dropna().unique().tolist())
SortedUnique(names) == SortedNames(SeqToSet(names) \ {NaNName})

\* elementwise ==: a missing name equals nothing
NameEq(a, b) == a # NaNName /\ a = b

\* countries = sorted(data["Country Name"].dropna().unique().tolist())
Countries(table) == SortedUnique([k \in 1..Len(table) |-> table[k].CountryName])

\* ind_for_country = sorted(data.loc[data["Country Name"] == country,
\*                                   "Indicator Name"].dropna().unique().tolist())
IndicatorsFor(table, c) ==
  LET sel == SelectSeq(table, LAMBDA r : NameEq(r.CountryName, c))
  IN SortedUnique([k \in 1..Len(sel) |-> sel[k].IndicatorName])

\* default_country = "Arab World" if "Arab World" in countries else countries[0]
\* (countries[0] raises IndexError on an empty list)
DefaultCountryRaises(cs) == ~Contains(cs, PreferredCountry) /\ Len(cs) = 0
DefaultCountry(cs) == IF Contains(cs, PreferredCountry) THEN PreferredCountry ELSE cs[1]

\* the for loop over the three candidates, with break
DefaultIndicatorFirstListed(inds) ==
  IF \E i \in 1..Len(inds) : Contains(PreferredIndicators, inds[i])
  THEN inds[CHOOSE i \in 1..Len(inds) :
              /\ Contains(PreferredIndicators, inds[i])
              /\ \A j \in 1..(i - 1) : ~Contains(PreferredIndicators, inds[j])]
  ELSE None
DefaultIndicator(inds) ==
  IF \E i \in 1..Len(PreferredIndicators) : Contains(inds, PreferredIndicators[i])
  THEN PreferredIndicators[
         CHOOSE i \in 1..Len(PreferredIndicators) :
           /\ Contains(inds, PreferredIndicators[i])
           /\ \A j \in 1..(i - 1) : ~Contains(inds, PreferredIndicators[j])]
  ELSE None

\* index=ind_for_country.index(default_indicator)
\*       if default_indicator in ind_for_country else 0
IndicatorIndex(inds, d) == IF Contains(inds, d) THEN IndexOf(inds, d) ELSE 0

\* st.selectbox(label, options, index): the option at index for a run without a
\* stored choice, None for an empty option list
SelectboxDefault(options, index) ==
  IF Len(options) = 0 THEN None ELSE options[index + 1]
\* what a selectbox can return in a run: its default or the session's choice
SelectboxValues(options, index) ==
  IF Len(options) = 0 THEN {None} ELSE SeqToSet(options)

\* the positions of the year slider that are explored
SliderStops == {YearLo, YearLo + 1, YearHi}
\* st.sidebar.slider("Year range", 1970, 2015, (1970, 2015))
SliderValues == {p \in SliderStops \X SliderStops : p[1] <= p[2]}

\* Series.between(lo, hi): inclusive at both ends
BetweenExclusive(y, lo, hi) == lo <= y /\ y < hi
Between(y, lo, hi) == lo <= y /\ y <= hi

\* df = data[(Country Name == country) & (Indicator Name == indicator)
\*           & Year.between(year_min, year_max)].copy()
FilterView(table, c, ind, lo, hi) ==
  SelectSeq(table, LAMBDA r : /\ NameEq(r.CountryName, c)
                              /\ NameEq(r.IndicatorName, ind)
                              /\ Between(r.Year, lo, hi))

\* total_years = (year_max - year_min + 1)
TotalYears(lo, hi) == hi - lo + 1
\* non_missing = df.loc[~df["Missing"]].shape[0]
NonMissing(view) == Len(SelectSeq(view, LAMBDA r : ~r.Missing))

\* df.dropna(subset=["Value"])
DropNaValue(view) == SelectSeq(view, LAMBDA r : ~IsNa(r.Value))

\* ------------------------------------------------------------ charts
ViewNames == {"trend", "model_chart", "missing_rate", "hist"}
NoCharts == [v \in {} |-> {}]
NoViews == [v \in {} |-> {}]
NoBrush == <<>>

\* The four chart specifications: the table each draws, the selection
\* parameters it defines (add_params), and where it refers to the brush.
ChartSpecs(view) ==
  [v \in ViewNames |->
     CASE v = "trend" ->
            [rows |-> view, params |-> {"brush", "pt"},
             condition |-> {"brush"}, filter |-> {}]
       [] v = "model_chart" ->
            [rows |-> DropNaValue(view), params |-> {},
             condition |-> {"brush"}, filter |-> {"brush"}]
       [] v = "missing_rate" ->
            [rows |-> view, params |-> {},
             condition |-> {"brush"}, filter |-> {}]
       [] v = "hist" ->
            [rows |-> DropNaValue(view), params |-> {},
             condition |-> {"brush"}, filter |-> {"brush"}]]

\* st.altair_chart(chart): each call embeds its chart as a view of its own,
\* whose selection store holds the parameters that chart's specification defines
EmbedView(spec) == [params |-> spec.params, refs |-> spec.condition \cup spec.filter,
                    brush |-> NoBrush]

\* the brush state a view works with: the value in its own store when its
\* specification defines the parameter, unbound otherwise
BrushSeen(w) ==
  IF "brush" \in w.params THEN [bound |-> TRUE, interval |-> w.brush]
  ELSE [bound |-> FALSE, interval |-> NoBrush]

\* KPI row: the three metrics
KpiRow(lo, hi, total, nonmiss) ==
  [selected |-> <<lo, hi>>, years |-> total,
   non_missing |-> nonmiss, coverage |-> <<nonmiss * 100, total>>,
   missing |-> total - nonmiss, missing_pct |-> <<(total - nonmiss) * 100, total>>]
NoKpi == [selected |-> <<>>, years |-> 0, non_missing |-> 0, coverage |-> <<>>,
          missing |-> 0, missing_pct |-> <<>>]

\* ------------------------------------------------------------ sources
\* Column headers other than the four identity columns.
H1968 == <<"1", "9", "6", "8">>
H1969 == <<"1", "9", "6", "9">>
H1970 == <<"1", "9", "7", "0">>
H1971 == <<"1", "9", "7", "1">>
H2015 == <<"2", "0", "1", "5">>
H2016 == <<"2", "0", "1", "6">>
H197 == <<"1", "9", "7">>
H19700 == <<"1", "9", "7", "0", "0">>
H197x == <<"1", "9", "7", "x">>
Headers == {H1968, H1969, H1970, H1971, H2015, H2016, H197, H19700, H197x}
ScenarioCols == {H1968, H1969, H1970, H1971, H2015, H2016}

\* Cell contents: numeric literals, the ".." sentinel, an empty cell, a word.
DotDot == <<".", ".">>
EmptyCell == <<>>
Tokens == {<<"7">>, <<"1", "2">>, <<"-", "3">>, DotDot, EmptyCell, <<"n", "/", "a">>}

Ident(cn, cc, ind, ic) ==
  [CountryName |-> cn, CountryCode |-> cc, IndicatorName |-> ind, IndicatorCode |-> ic]
Gross == PreferredIndicators[1]
Adjusted == PreferredIndicators[3]
Adult == "Adult literacy rate, population 15+ years, female (%)"
Youth == "Youth literacy rate, population 15-24 years, female (%)"
ArabGross == Ident("Arab World", "ARB", Gross, "SE.PRM.ENRR.FE")
RowIds ==
  { ArabGross,
    Ident("Arab World", "ARB", Adjusted, "UIS.NERA.1.F"),
    Ident("Arab World", "ARB", Youth, "SE.ADT.1524.LT.FE.ZS"),
    Ident("Arab World", "ARB", Adult, "SE.ADT.LITR.FE.ZS"),
    Ident("Aruba", "ABW", Youth, "SE.ADT.1524.LT.FE.ZS"),
    Ident("Albania", "ALB", Adult, "SE.ADT.LITR.FE.ZS"),
    Ident("Albania", "ALB", NaNName, NaNName),
    Ident(NaNName, NaNName, Gross, "SE.PRM.ENRR.FE") }

AllIdCols == SeqToSet(RequiredCols)
Row(id, cells) == id @@ [cells |-> cells]
Wide(idcols, ycols, rows) == [ok |-> TRUE, idcols |-> idcols, ycols |-> ycols, rows |-> rows]
\* the source cannot be fetched or parsed
Unavailable == [ok |-> FALSE, idcols |-> {}, ycols |-> {}, rows |-> <<>>]

\* one row, every set of at most MaxCols headers, every cell content
ColumnSources ==
  UNION { { Wide(AllIdCols, ys, <<Row(ArabGross, cells)>>) : cells \in [ys -> Tokens] }
          : ys \in {Y \in SUBSET Headers : Cardinality(Y) <= MaxCols} }
\* the six-column scenario, one row, the same content in every cell
ScenarioSources ==
  { Wide(AllIdCols, ScenarioCols, <<Row(ArabGross, [c \in ScenarioCols |-> t])>>)
    : t \in Tokens }
\* up to MaxRows rows of any identities (repeated ones included) over the columns
\* 1970 (a number) and 2015 (the sentinel); the table has no column for 1971
RowCells == [c \in {H1970, H2015} |-> IF c = H1970 THEN <<"7">> ELSE DotDot]
RowSeqs == UNION { [1..n -> RowIds] : n \in 0..MaxRows }
RowSources ==
  { Wide(AllIdCols, {H1970, H2015}, [i \in 1..Len(ids) |-> Row(ids[i], RowCells)])
    : ids \in RowSeqs }
\* at least one identity column absent
SchemaSources ==
  { Wide(ic, {H1970}, <<>>) : ic \in (SUBSET AllIdCols) \ {AllIdCols} }

Sources == ColumnSources \cup ScenarioSources \cup RowSources \cup SchemaSources
             \cup {Unavailable}

\* the contents the source location takes in the specification with a changing
\* source
LifeSources ==
  { Unavailable,
    Wide(AllIdCols \ {"Country Code"}, {H1970}, <<>>),
    Wide(AllIdCols, {H1970, H2015}, <<>>),
    Wide(AllIdCols, {H1970, H2015}, <<Row(ArabGross, RowCells)>>),
    Wide(AllIdCols, {H1970, H2015},
         <<Row(Ident("Albania", "ALB", Adult, "SE.ADT.LITR.FE.ZS"), RowCells),
           Row(ArabGross, RowCells)>>) }

\* ------------------------------------------------------------ state
VARIABLES
  remote,            \* what is found at CSV_URL
  cache,             \* st.cache_data's entry for load_edstats(CSV_URL)
  built,             \* history: the tables the body of load_edstats returned
  pc,                \* position of the script run
  data, exc,
  countries, default_country, country,
  ind_for_country, default_indicator, indicator_index, indicator,
  year_min, year_max,
  df, total_years, non_missing,
  charts, kpi,
  shown,             \* the elements the run has put on the page, in order
  views              \* the chart views embedded in the page

envVars == <<remote, cache, built>>
selVars == <<countries, default_country, country, ind_for_country,
             default_indicator, indicator_index, indicator, year_min, year_max>>
viewVars == <<df, total_years, non_missing>>
vars == <<remote, cache, built, pc, data, exc, countries, default_country, country,
          ind_for_country, default_indicator, indicator_index, indicator,
          year_min, year_max, df, total_years, non_missing, charts, kpi, shown, views>>

NoEntry == [present |-> FALSE, table |-> EmptyTable]

\* the start of a script run: lines 8-12
RunStart ==
  /\ pc = "load"
  /\ data = EmptyTable /\ exc = NoExc
  /\ countries = <<>> /\ default_country = None /\ country = None
  /\ ind_for_country = <<>> /\ default_indicator = None /\ indicator_index = 0
  /\ indicator = None
  /\ year_min = YearLo /\ year_max = YearHi
  /\ df = EmptyTable /\ total_years = 0 /\ non_missing = 0
  /\ charts = NoCharts /\ kpi = NoKpi
  /\ shown = <<"title">>
  /\ views = NoViews

Init ==
  /\ remote \in Sources
  /\ cache = NoEntry /\ built = <<>>
  /\ RunStart

InitLife ==
  /\ remote \in LifeSources
  /\ cache = NoEntry /\ built = <<>>
  /\ RunStart

\* ------------------------------------------------------------ the run
\* @st.cache_data: a call with an argument seen before returns the stored value
CacheAlwaysMiss(c) == FALSE
CacheHit(c) == c.present

\* st.stop() after st.error: the run ends there
ContinueAfterError == "sidebar"
AfterError == "stopped"

\* lines 56-57, the value is in the cache
LoadHit ==
  /\ pc = "load" /\ CacheHit(cache)
  /\ data' = cache.table
  /\ pc' = "sidebar"
  /\ UNCHANGED <<envVars, exc, selVars, viewVars, charts, kpi, shown, views>>

\* lines 56-57, the body runs and returns
LoadMiss ==
  /\ pc = "load" /\ ~CacheHit(cache)
  /\ LET res == load_edstats(remote)
     IN /\ ~res.raised
        /\ cache' = [present |-> TRUE, table |-> res.table]
        /\ built' = Append(built, res.table)
        /\ data' = res.table
  /\ pc' = "sidebar"
  /\ UNCHANGED <<remote, exc, selVars, viewVars, charts, kpi, shown, views>>

\* lines 56-60, the body raises: st.error, st.stop
LoadFail ==
  /\ pc = "load" /\ ~CacheHit(cache)
  /\ LET res == load_edstats(remote)
     IN /\ res.raised
        /\ exc' = res.exc
  /\ shown' = Append(shown, "error")
  /\ pc' = AfterError
  /\ UNCHANGED <<envVars, data, selVars, viewVars, charts, kpi, views>>

\* lines 64-69 when countries[0] raises IndexError: the run ends with the
\* uncaught exception
SidebarRaise ==
  /\ pc = "sidebar"
  /\ DefaultCountryRaises(Countries(data))
  /\ countries' = Countries(data)
  /\ shown' = shown \o <<"sidebar.header", "exception">>
  /\ pc' = "crashed"
  /\ UNCHANGED <<envVars, data, exc, default_country, country, ind_for_country,
                 default_indicator, indicator_index, indicator, year_min, year_max,
                 viewVars, charts, kpi, views>>

\* lines 64-90
Sidebar ==
  /\ pc = "sidebar"
  /\ ~DefaultCountryRaises(Countries(data))
  /\ countries' = Countries(data)
  /\ default_country' = DefaultCountry(countries')
  /\ country' \in SelectboxValues(countries', IndexOf(countries', default_country'))
  /\ ind_for_country' = IndicatorsFor(data, country')
  /\ default_indicator' = DefaultIndicator(ind_for_country')
  /\ indicator_index' = IndicatorIndex(ind_for_country', default_indicator')
  /\ indicator' \in SelectboxValues(ind_for_country', indicator_index')
  /\ \E p \in SliderValues : year_min' = p[1] /\ year_max' = p[2]
  /\ shown' = shown \o <<"sidebar.header", "selectbox.Country", "selectbox.Indicator",
                         "slider.Year range">>
  /\ pc' = "filter"
  /\ UNCHANGED <<envVars, data, exc, viewVars, charts, kpi, views>>

\* lines 92-100
Filter ==
  /\ pc = "filter"
  /\ df' = FilterView(data, country, indicator, year_min, year_max)
  /\ total_years' = TotalYears(year_min, year_max)
  /\ non_missing' = NonMissing(df')
  /\ pc' = "compose"
  /\ UNCHANGED <<envVars, data, exc, selVars, charts, kpi, shown, views>>

\* lines 102-180
Compose ==
  /\ pc = "compose"
  /\ charts' = ChartSpecs(df)
  /\ pc' = "kpi"
  /\ UNCHANGED <<envVars, data, exc, selVars, viewVars, kpi, shown, views>>

\* lines 182-186
Kpi ==
  /\ pc = "kpi"
  /\ kpi' = KpiRow(year_min, year_max, total_years, non_missing)
  /\ shown' = shown \o <<"metric.Selected years", "metric.Non-missing points",
                         "metric.Missing points">>
  /\ pc' = "layout"
  /\ UNCHANGED <<envVars, data, exc, selVars, viewVars, charts, views>>

\* lines 188-204
Layout ==
  /\ pc = "layout"
  /\ views' = [v \in ViewNames |-> EmbedView(charts[v])]
  /\ shown' = shown \o <<"altair_chart.trend", "altair_chart.model_chart",
                         "altair_chart.missing_rate", "altair_chart.hist", "caption">>
  /\ pc' = "done"
  /\ UNCHANGED <<envVars, data, exc, selVars, viewVars, charts, kpi>>

\* The user drags an interval on the year axis of the trend view: the brush
\* parameter of that view's store takes the interval.
Brush ==
  /\ pc = "done"
  /\ "brush" \in views["trend"].params
  /\ \E p \in SliderValues :
       /\ year_min <= p[1] /\ p[2] <= year_max
       /\ views["trend"].brush # p
       /\ views' = [views EXCEPT !["trend"].brush = p]
  /\ UNCHANGED <<envVars, pc, data, exc, selVars, viewVars, charts, kpi, shown>>

\* A widget interaction (or a page reload): the script runs again from the top.
Rerun ==
  /\ pc \in {"done", "stopped", "crashed"}
  /\ pc' = "load"
  /\ data' = EmptyTable /\ exc' = NoExc
  /\ countries' = <<>> /\ default_country' = None /\ country' = None
  /\ ind_for_country' = <<>> /\ default_indicator' = None /\ indicator_index' = 0
  /\ indicator' = None
  /\ year_min' = YearLo /\ year_max' = YearHi
  /\ df' = EmptyTable /\ total_years' = 0 /\ non_missing' = 0
  /\ charts' = NoCharts /\ kpi' = NoKpi
  /\ shown' = <<"title">>
  /\ views' = NoViews
  /\ UNCHANGED envVars

\* The file at the source location is replaced, or becomes (un)available.
RemoteChange ==
  /\ pc = "load"
  /\ remote' \in LifeSources \ {remote}
  /\ UNCHANGED <<cache, built, pc, data, exc, selVars, viewVars, charts, kpi, shown, views>>

Next ==
  \/ LoadHit \/ LoadMiss \/ LoadFail
  \/ SidebarRaise \/ Sidebar
  \/ Filter \/ Compose \/ Kpi \/ Layout
  \/ Brush \/ Rerun

NextLife == Next \/ RemoteChange

Spec == Init /\ [][Next]_vars
SpecLife == InitLife /\ [][NextLife]_vars

\* ------------------------------------------------------------ claims
Loaded == cache.present
PastSidebar == pc \in {"filter", "compose", "kpi", "layout", "done"}
PastFilter == pc \in {"compose", "kpi", "layout", "done"}
PastKpi == pc \in {"layout", "done"}

\* the cell of the source that record k of the loaded table was made from
SourceCell(k) ==
  LET n == Len(remote.rows)
      yc == YearCols(remote.ycols)
  IN remote.rows[((k - 1) % n) + 1].cells[yc[((k - 1) \div n) + 1]]

\* C1: in every record of the loaded table Missing is true exactly when Value
\* is absent; an empty cell, the ".." sentinel and a non-numeric word give an
\* absent Value and Missing true, a numeric cell a present Value (its number)
\* and Missing false.
C1_MissingIffValueAbsent ==
  Loaded =>
    \A k \in 1..Len(cache.table) :
      LET r == cache.table[k]
          cell == SourceCell(k)
      IN /\ r.Missing <=> (r.Value = NaN)
         /\ cell \in {EmptyCell, DotDot, <<"n", "/", "a">>} => r.Missing /\ r.Value = NaN
         /\ cell = <<"7">> => ~r.Missing /\ r.Value = <<7>>
         /\ cell = <<"1", "2">> => ~r.Missing /\ r.Value = <<12>>
         /\ cell = <<"-", "3">> => ~r.Missing /\ r.Value = <<0 - 3>>

\* C1 witness: a loaded table with a record made from a ".." cell, flagged
\* Missing, and a record made from a numeric cell, not flagged
C1_Witness ==
  /\ Loaded
  /\ \E k \in 1..Len(cache.table) : SourceCell(k) = DotDot /\ cache.table[k].Missing
  /\ \E k \in 1..Len(cache.table) : SourceCell(k) = <<"7">> /\ ~cache.table[k].Missing

\* the header that spells year y in four decimal digits
HeaderOf(y) ==
  << DigitChars[(y \div 1000) + 1], DigitChars[((y \div 100) % 10) + 1],
     DigitChars[((y \div 10) % 10) + 1], DigitChars[(y % 10) + 1] >>
YearsOf(table) == {table[k].Year : k \in 1..Len(table)}

\* C2: the year columns kept are exactly the headers spelling a year of
\* 1970..2015 in four digits, no record has a Year outside 1970..2015, and the
\* years of the records are the years of the kept columns.
C2_YearColumnsInBound ==
  Loaded =>
    /\ SeqToSet(YearCols(remote.ycols)) = {c \in remote.ycols : \E y \in 1970..2015 : c = HeaderOf(y)}
    /\ \A k \in 1..Len(cache.table) : 1970 <= cache.table[k].Year /\ cache.table[k].Year <= 2015
    /\ remote.rows # <<>> =>
         YearsOf(cache.table) = {y \in 1970..2015 : HeaderOf(y) \in remote.ycols}

\* C2 witness: the six-column scenario loaded, with records for 1970, 1971 and
\* 2015 only
C2_Witness ==
  /\ Loaded
  /\ remote.ycols = ScenarioCols
  /\ YearsOf(cache.table) = {1970, 1971, 2015}

\* C3: the loaded table holds one record per (Country Name, Indicator Name,
\* Year), and the filtered view at most one record per year.
C3_OneRecordPerTriple ==
  /\ Loaded =>
       \A i, j \in 1..Len(cache.table) :
         /\ i # j
         /\ cache.table[i].CountryName # NaNName
         /\ cache.table[i].IndicatorName # NaNName
         => <<cache.table[i].CountryName, cache.table[i].IndicatorName, cache.table[i].Year>>
              # <<cache.table[j].CountryName, cache.table[j].IndicatorName, cache.table[j].Year>>
  /\ PastFilter => \A i, j \in 1..Len(df) : i # j => df[i].Year # df[j].Year

\* C4: a run whose load failed shows the title and one error message, whose
\* details name the missing identity columns when that is the failure, and
\* stops there: no sidebar, no KPI, no chart specification, no view.
C4_FailedLoadHalts ==
  /\ pc = "stopped" <=> Contains(shown, "error")
  /\ Contains(shown, "error") =>
       /\ pc = "stopped"
       /\ shown = <<"title", "error">>
       /\ charts = NoCharts /\ views = NoViews /\ kpi = NoKpi
       /\ countries = <<>> /\ df = EmptyTable
       /\ exc # NoExc
       /\ remote.ok =>
            /\ exc.missing # <<>>
            /\ SeqToSet(exc.missing) = {c \in SeqToSet(RequiredCols) : c \notin remote.idcols}
  /\ Contains(shown, "altair_chart.trend") => Loaded /\ exc = NoExc

\* C4 witness: a run stopped on a source that lacks two identity columns, the
\* error naming both
C4_Witness ==
  /\ pc = "stopped"
  /\ shown = <<"title", "error">>
  /\ exc.type = "ValueError"
  /\ exc.missing = <<"Country Code", "Indicator Name">>

\* C5: the table is built once, by the first load that succeeds; the cache
\* holds that table from then on and every run past its load reads it,
\* whatever the source location holds by then and whatever the runs did.
C5_TableBuiltOnce ==
  /\ Len(built) <= 1
  /\ Loaded <=> Len(built) = 1
  /\ Loaded => cache.table = built[1]
  /\ pc \notin {"load", "stopped"} => Loaded /\ data = built[1]
  /\ PastFilter => df = FilterView(built[1], country, indicator, year_min, year_max)

\* C5 witness: a run rendered from the cached table after the source location
\* changed to a table that would load differently
C5_Witness ==
  /\ pc = "done"
  /\ Len(built) = 1 /\ data = built[1]
  /\ ~load_edstats(remote).raised
  /\ load_edstats(remote).table # data

\* C6: once the user has brushed an interval on the trend view, the model,
\* missing-rate and distribution views work with that same interval.
C6_BrushShared ==
  pc = "done" /\ views["trend"].brush # NoBrush =>
    \A v \in ViewNames : BrushSeen(views[v]) = BrushSeen(views["trend"])

CountrySet == {data[k].CountryName : k \in 1..Len(data)} \ {NaNName}
IndicatorSet(c) ==
  {data[k].IndicatorName : k \in {i \in 1..Len(data) : data[i].CountryName = c}} \ {NaNName}
FirstInOrder(S) == CHOOSE x \in S : \A y \in S : Rank(x) <= Rank(y)
DefaultIndicatorOption == SelectboxDefault(ind_for_country, indicator_index)

\* C7: the default country is "Arab World" when the table has it and the first
\* country in sorted order otherwise; the default indicator is the first of the
\* three preferred names, in their listed order, that the chosen country has,
\* and the first of the country's sorted indicators when it has none of them.
C7_DefaultSelection ==
  PastSidebar =>
    /\ default_country =
         IF "Arab World" \in CountrySet THEN "Arab World" ELSE FirstInOrder(CountrySet)
    /\ LET S == IndicatorSet(country)
       IN CASE PreferredIndicators[1] \in S -> DefaultIndicatorOption = PreferredIndicators[1]
            [] PreferredIndicators[1] \notin S /\ PreferredIndicators[2] \in S ->
                 DefaultIndicatorOption = PreferredIndicators[2]
            [] PreferredIndicators[1] \notin S /\ PreferredIndicators[2] \notin S
                 /\ PreferredIndicators[3] \in S ->
                 DefaultIndicatorOption = PreferredIndicators[3]
            [] OTHER -> S # {} => DefaultIndicatorOption = FirstInOrder(S)

\* C7 witness: the chosen country has the first and the third preferred
\* indicator, and the default is the first although the third sorts before it
C7_Witness ==
  /\ PastSidebar
  /\ IndicatorSet(country) = {PreferredIndicators[1], PreferredIndicators[3]}
  /\ ind_for_country[1] = PreferredIndicators[3]
  /\ DefaultIndicatorOption = PreferredIndicators[1]

\* C8: a run whose table has no countries, or whose country has no
\* indicators, does not fail.
C8_EmptyDomainNeverFails ==
  (Loaded /\ (Countries(cache.table) = <<>> \/ ind_for_country = <<>>)) => pc # "crashed"

\* C9: the filtered view holds exactly the records of the table whose country
\* and indicator are the chosen ones and whose year is in [year_min, year_max],
\* both ends included, and filtering the view again returns the view.
C9_FilterExactAndIdempotent ==
  PastFilter =>
    /\ df = SelectSeq(data, LAMBDA r : /\ r.CountryName = country
                                       /\ r.IndicatorName = indicator
                                       /\ year_min <= r.Year /\ r.Year <= year_max)
    /\ FilterView(df, country, indicator, year_min, year_max) = df

\* C9 witness: a view over a range of several years that keeps a record at each
\* end of the range and leaves records of the table out
C9_Witness ==
  /\ PastFilter
  /\ year_min < year_max
  /\ \E i \in 1..Len(df) : df[i].Year = year_min
  /\ \E i \in 1..Len(df) : df[i].Year = year_max
  /\ Len(df) < Len(data)

MissingRecords(view) == Len(SelectSeq(view, LAMBDA r : r.Missing))

\* C10: the KPIs are consistent with the filtered view: non-missing plus
\* missing is the number of selected years, non-missing lies between 0 and the
\* number of selected years, missing is the number of records flagged Missing,
\* the number of selected years is at least 1 and both percentages lie in
\* [0, 100].
C10_KpiConsistent ==
  PastKpi =>
    /\ kpi.years >= 1
    /\ kpi.non_missing + kpi.missing = kpi.years
    /\ 0 <= kpi.non_missing /\ kpi.non_missing <= kpi.years
    /\ kpi.missing = MissingRecords(df)
    /\ 0 <= kpi.coverage[1] /\ kpi.coverage[1] <= 100 * kpi.coverage[2]
    /\ 0 <= kpi.missing_pct[1] /\ kpi.missing_pct[1] <= 100 * kpi.missing_pct[2]

====
